---- MODULE Spec2Model ----
(***************************************************************************)
(* Ray/scene intersection core of src/src/scene.rs.                        *)
(*                                                                         *)
(* Numbers.  The program computes in f32.  Inputs are drawn from small     *)
(* integers (all exactly representable, every zero a +0.0).  A computed    *)
(* value is modelled as the exact real it approximates, or as one of the   *)
(* IEEE special values the code can produce by dividing by zero:           *)
(*    [kind |-> "fin", num, coef, rad, den]  is (num + coef*sqrt(rad))/den *)
(*    [kind |-> "nan"], [kind |-> "pinf"], [kind |-> "ninf"]               *)
(* Rounding of the finite values is not modelled; the sign of a zero       *)
(* divisor is, because it decides between +inf and -inf.                   *)
(***************************************************************************)
EXTENDS Integers, Sequences, FiniteSets

VARIABLES shapes, accumulate, frame_index, accumulation,  \* the Scene's fields
          op,        \* the last operation called
          arg,       \* the shapes handed to the last constructor call
          target,    \* the index of the shape a primitive query went to, or 0
          ray, interval, result   \* the last query and what it returned

vars == <<shapes, accumulate, frame_index, accumulation,
          op, arg, target, ray, interval, result>>

sceneVars == <<shapes, accumulate, frame_index, accumulation>>

(***************************************************************************)
(* Bounds of the model                                                     *)
(***************************************************************************)
MaxCoord == 2
MaxShapes == 2
MaxRadius == 2
MaxT == 2
MaxHeight == 3
MaxFrame == 2
NumPixels == 1

(***************************************************************************)
(* Integer helpers                                                         *)
(***************************************************************************)
Abs(n) == IF n < 0 THEN -n ELSE n

Sgn(n) == IF n < 0 THEN -1 ELSE IF n > 0 THEN 1 ELSE 0

RECURSIVE Gcd(_, _)
Gcd(m, n) == IF n = 0 THEN m ELSE Gcd(n, m % n)

RECURSIVE SqrtSearch(_, _, _)
SqrtSearch(n, lo, hi) ==
    IF lo >= hi THEN lo
    ELSE LET mid == (lo + hi + 1) \div 2
         IN  IF mid * mid <= n THEN SqrtSearch(n, mid, hi)
             ELSE SqrtSearch(n, lo, mid - 1)

\* floor of the square root of n >= 0
Isqrt(n) == SqrtSearch(n, 0, IF n < 40000 THEN n ELSE 40000)

(***************************************************************************)
(* Values: exact reals of the form (num + coef*sqrt(rad))/den, and the     *)
(* IEEE specials                                                           *)
(***************************************************************************)
NaN == [kind |-> "nan", num |-> 0, coef |-> 0, rad |-> 0, den |-> 1]
PInf == [kind |-> "pinf", num |-> 0, coef |-> 0, rad |-> 0, den |-> 1]
NInf == [kind |-> "ninf", num |-> 0, coef |-> 0, rad |-> 0, den |-> 1]

\* (p + s*sqrt(q))/d with d > 0, q >= 0, in lowest terms; a perfect-square
\* radicand is folded into the rational part.
Fin(p, s, q, d) ==
    LET q0 == IF s = 0 THEN 0 ELSE q
        r  == Isqrt(q0)
        sq == r * r = q0
        p1 == IF sq THEN p + s * r ELSE p
        s1 == IF sq THEN 0 ELSE s
        q1 == IF sq THEN 0 ELSE q0
        g  == Gcd(Gcd(Abs(p1), Abs(s1)), d)
    IN  [kind |-> "fin", num |-> p1 \div g, coef |-> s1 \div g,
         rad |-> q1, den |-> d \div g]

FromInt(n) == Fin(n, 0, 0, 1)

IsFinite(x) == x.kind = "fin"

\* sign of u + v*sqrt(q), q >= 0
SurdSign(u, v, q) ==
    IF v = 0 \/ q = 0 THEN Sgn(u)
    ELSE IF u = 0 THEN Sgn(v)
    ELSE IF Sgn(u) = Sgn(v) THEN Sgn(u)
    ELSE IF u * u > v * v * q THEN Sgn(u)
    ELSE IF u * u < v * v * q THEN Sgn(v)
    ELSE 0

\* sign of a + b*sqrt(q1) + c*sqrt(q2)
SurdSign2(a, b, q1, c, q2) ==
    IF b = 0 \/ q1 = 0 THEN SurdSign(a, c, q2)
    ELSE IF c = 0 \/ q2 = 0 THEN SurdSign(a, b, q1)
    ELSE IF q1 = q2 THEN SurdSign(a, b + c, q1)
    ELSE LET sx == SurdSign(a, b, q1)
             sc == Sgn(c)
         IN  IF sx = 0 THEN sc
             ELSE IF sx = sc THEN sx
             ELSE LET m == SurdSign(a * a + b * b * q1 - c * c * q2, 2 * a * b, q1)
                  IN  IF m > 0 THEN sx ELSE IF m < 0 THEN sc ELSE 0

SignOf(x) == SurdSign(x.num, x.coef, x.rad)

\* sign of x - y for finite x, y
CmpFin(x, y) ==
    SurdSign2(x.num * y.den - y.num * x.den, x.coef * y.den, x.rad,
              -(y.coef * x.den), y.rad)

\* IEEE comparisons: every comparison with NaN is false
Lt(x, y) ==
    IF x.kind = "nan" \/ y.kind = "nan" THEN FALSE
    ELSE IF x.kind = "pinf" \/ y.kind = "ninf" THEN FALSE
    ELSE IF x.kind = "ninf" \/ y.kind = "pinf" THEN TRUE
    ELSE CmpFin(x, y) < 0

Le(x, y) ==
    IF x.kind = "nan" \/ y.kind = "nan" THEN FALSE
    ELSE IF x.kind = "ninf" \/ y.kind = "pinf" THEN TRUE
    ELSE IF x.kind = "pinf" \/ y.kind = "ninf" THEN FALSE
    ELSE CmpFin(x, y) <= 0

Eq(x, y) == Le(x, y) /\ Le(y, x)

\* x / n for finite x and an integer n; negZero tells a zero n is -0.0
DivInt(x, n, negZero) ==
    IF n > 0 THEN Fin(x.num, x.coef, x.rad, x.den * n)
    ELSE IF n < 0 THEN Fin(-x.num, -x.coef, x.rad, x.den * (-n))
    ELSE LET s == SignOf(x) * (IF negZero THEN -1 ELSE 1)
         IN  IF s = 0 THEN NaN ELSE IF s > 0 THEN PInf ELSE NInf

\* o + d*t for integers o, d and a value t
MulAdd(o, d, t) ==
    IF t.kind = "fin" THEN Fin(o * t.den + d * t.num, d * t.coef, t.rad, t.den)
    ELSE IF t.kind = "nan" \/ d = 0 THEN NaN
    ELSE IF (t.kind = "pinf") = (d > 0) THEN PInf ELSE NInf

\* x + n for a value x and an integer n
AddInt(x, n) ==
    IF x.kind = "fin" THEN Fin(x.num + n * x.den, x.coef, x.rad, x.den) ELSE x

\* x*x for a finite x, and the sum of two finite values over the same radicand
Square(x) ==
    Fin(x.num * x.num + x.coef * x.coef * x.rad, 2 * x.num * x.coef, x.rad,
        x.den * x.den)

Add(x, y) ==
    Fin(x.num * y.den + y.num * x.den, x.coef * y.den + y.coef * x.den,
        IF x.coef = 0 THEN y.rad ELSE x.rad, x.den * y.den)

(***************************************************************************)
(* Vectors of integers (glam Vec3 over the integer inputs)                 *)
(***************************************************************************)
Dot(u, v) == u[1] * v[1] + u[2] * v[2] + u[3] * v[3]

Sub(u, v) == <<u[1] - v[1], u[2] - v[2], u[3] - v[3]>>

\* u.dot(v) is -0.0: each product is a -0.0 (a +0 factor times a negative one)
DotIsNegZero(u, v) ==
    \A i \in 1..3 : u[i] * v[i] = 0 /\ (u[i] < 0 \/ v[i] < 0)

(***************************************************************************)
(* Mat (lines 123-134).  Colours and factors are kept in tenths.           *)
(* Default::default() of Mat is bevy's white colour and 0.0 elsewhere.     *)
(***************************************************************************)
Mat(albedo, roughness, emission, emission_color, specular_chance) ==
    [albedo |-> albedo, roughness |-> roughness, emission |-> emission,
     emission_color |-> emission_color, specular_chance |-> specular_chance]

MatDefault == Mat(<<10, 10, 10>>, 0, 0, <<10, 10, 10>>, 0)

(***************************************************************************)
(* Shape: Sphere | Plane                                                   *)
(***************************************************************************)
Sphere(center, radius, material) ==
    [kind |-> "Sphere", center |-> center, radius |-> radius,
     normal |-> <<0, 0, 0>>, material |-> material]

\* a plane keeps its point in the field center
Plane(point, normal, material) ==
    [kind |-> "Plane", center |-> point, radius |-> 0,
     normal |-> normal, material |-> material]

(***************************************************************************)
(* Option<HitRecord>: <<>> is None, <<h>> is Some(h)                       *)
(***************************************************************************)
None == <<>>

Some(h) == <<h>>

HitRecord(point, normal, t, material) ==
    [point |-> point, normal |-> normal, t |-> t, material |-> material]

Ray(origin, direction) == [origin |-> origin, direction |-> direction]

Range(start, end) == [start |-> start, end |-> end]

\* Range<f32>::contains: start <= t && t < end
ContainsClosedEnd(iv, t) == Le(iv.start, t) /\ Le(t, iv.end)

Contains(iv, t) == Le(iv.start, t) /\ Lt(t, iv.end)

\* Vec3::normalize, kept symbolic: the unit vector along v
Normalize(v) == [along |-> v, unit |-> TRUE]

AsGiven(n) == [along |-> <<FromInt(n[1]), FromInt(n[2]), FromInt(n[3])>>,
               unit |-> FALSE]

(***************************************************************************)
(* Sphere::hit (lines 149-175)                                             *)
(***************************************************************************)
\* root formula of a plausible slip: the full-b divisor 2a on the half-b form
SphereRootFullB(a, b, dis) == DivInt(Fin(-b, -1, dis, 1), 2 * a, FALSE)

\* the far root instead of the near one
SphereRootFar(a, b, dis) == DivInt(Fin(-b, 1, dis, 1), a, FALSE)

\* line 160: (-b - dis.sqrt()) / a; a = D.D is never a negative zero
SphereRoot(a, b, dis) == DivInt(Fin(-b, -1, dis, 1), a, FALSE)

SphereHit(s, r, iv) ==
    LET origin == Sub(r.origin, s.center)
        a == Dot(r.direction, r.direction)
        b == Dot(origin, r.direction)
        c == Dot(origin, origin) - s.radius * s.radius
        dis == b * b - a * c
    IN  IF dis < 0 THEN None
        ELSE LET t == SphereRoot(a, b, dis)
             IN  IF ~Contains(iv, t) THEN None
                 ELSE LET hit == [i \in 1..3 |->
                                     MulAdd(origin[i], r.direction[i], t)]
                          normal == Normalize(hit)
                          point == [i \in 1..3 |-> AddInt(hit[i], s.center[i])]
                      IN  Some(HitRecord(point, normal, t, s.material))

(***************************************************************************)
(* Plane::hit (lines 185-195)                                              *)
(***************************************************************************)
PlaneT(p, r) ==
    DivInt(FromInt(Dot(p.normal, Sub(p.center, r.origin))),
           Dot(p.normal, r.direction),
           DotIsNegZero(p.normal, r.direction))

PlaneHit(p, r, iv) ==
    LET t == PlaneT(p, r)
    IN  IF Contains(iv, t)
        THEN Some(HitRecord([i \in 1..3 |-> MulAdd(r.origin[i], r.direction[i], t)],
                            AsGiven(p.normal), t, p.material))
        ELSE None

(***************************************************************************)
(* Shape::hit (lines 24-35)                                                *)
(***************************************************************************)
ShapeHit(sh, r, iv) ==
    IF sh.kind = "Sphere" THEN SphereHit(sh, r, iv) ELSE PlaneHit(sh, r, iv)

(***************************************************************************)
(* Hittable for Vec<Shape> (crate::hittable, not in src/): every shape is  *)
(* tested against the same interval, the hit with the smallest t is kept,  *)
(* the first one met on a tie.                                             *)
(***************************************************************************)
RECURSIVE VecHitFrom(_, _, _, _, _)
VecHitFrom(ss, i, best, r, iv) ==
    IF i > Len(ss) THEN best
    ELSE LET h == ShapeHit(ss[i], r, iv)
             keep == h # None /\ (best = None \/ Lt(h[1].t, best[1].t))
         IN  VecHitFrom(ss, i + 1, IF keep THEN h ELSE best, r, iv)

VecHit(ss, r, iv) == VecHitFrom(ss, 1, None, r, iv)

(***************************************************************************)
(* Scene (lines 37-121)                                                    *)
(***************************************************************************)
Reverse(ss) == [i \in 1..Len(ss) |-> ss[Len(ss) + 1 - i]]

\* slips of Scene::hit: only the first shape is asked; the list is scanned
\* from its end
SceneHitFirstOnly(ss, r, iv) ==
    IF ss = <<>> THEN None ELSE ShapeHit(ss[1], r, iv)

SceneHitReversed(ss, r, iv) == VecHit(Reverse(ss), r, iv)

\* lines 117-121: self.shapes.hit(ray, interval)
SceneHit(ss, r, iv) == VecHit(ss, r, iv)

\* a constructor that starts in the "restart" state
SceneNewRestart(ss) ==
    [shapes |-> ss, accumulate |-> FALSE, frame_index |-> -1,
     accumulation |-> <<>>]

\* lines 103-110
SceneNew(ss) ==
    [shapes |-> ss, accumulate |-> FALSE, frame_index |-> 0,
     accumulation |-> <<>>]

\* the ground sphere one unit too high
DefaultShapesGroundRaised ==
    << Sphere(<<0, 0, 0>>, 1, [MatDefault EXCEPT !.albedo = <<10, 0, 10>>, !.roughness = 8]),
       Sphere(<<2, 0, -1>>, 1, [MatDefault EXCEPT !.albedo = <<2, 7, 1>>, !.roughness = 6]),
       Sphere(<<0, -100, 0>>, 100, [MatDefault EXCEPT !.albedo = <<2, 3, 60>>, !.roughness = 5]),
       Sphere(<<100, 101, -20>>, 100,
              [MatDefault EXCEPT !.emission = 30, !.emission_color = <<9, 9, 7>>]) >>

\* lines 48-89
DefaultShapes ==
    << Sphere(<<0, 0, 0>>, 1, [MatDefault EXCEPT !.albedo = <<10, 0, 10>>, !.roughness = 8]),
       Sphere(<<2, 0, -1>>, 1, [MatDefault EXCEPT !.albedo = <<2, 7, 1>>, !.roughness = 6]),
       Sphere(<<0, -101, 0>>, 100, [MatDefault EXCEPT !.albedo = <<2, 3, 60>>, !.roughness = 5]),
       Sphere(<<100, 101, -20>>, 100,
              [MatDefault EXCEPT !.emission = 30, !.emission_color = <<9, 9, 7>>]) >>

SceneDefault == SceneNew(DefaultShapes)

\* lines 112-114, with two slips: the index is decremented instead of set;
\* the buffer is cleared along with the index
SceneResizeDecrement(sc) == [sc EXCEPT !.frame_index = @ - 1]

SceneResizeClearing(sc) == [sc EXCEPT !.frame_index = -1, !.accumulation = <<>>]

SceneResize(sc) == [sc EXCEPT !.frame_index = -1]

(***************************************************************************)
(* Inputs                                                                  *)
(***************************************************************************)
Coords == -MaxCoord..MaxCoord

Origins == {<<x, y, 0>> : x \in Coords, y \in Coords}

Directions == {<<x, y, z>> : x \in -1..1, y \in -1..1, z \in 0..1}

Rays == {Ray(o, d) : o \in Origins, d \in Directions}

\* rays along the vertical through or beside the origin, pointing down
DownRays == {Ray(<<x, h, 0>>, <<0, -k, 0>>) : x \in 0..1, h \in 0..MaxHeight, k \in 1..2}

Starts == {NInf} \cup {FromInt(n) : n \in 0..1}

Ends == {FromInt(1), FromInt(MaxT), PInf}

Intervals == {Range(s, e) : s \in Starts, e \in Ends}

\* a material told apart by its albedo
MatOf(n) == Mat(<<n, 0, 0>>, 0, 0, <<10, 10, 10>>, 0)

PrimPool ==
    {Sphere(c, rad, MatOf(5)) : c \in {<<1, 0, 0>>, <<0, -1, 1>>}, rad \in 0..MaxRadius}
    \cup {Plane(<<0, -1, 0>>, n, MatOf(6)) :
             n \in {<<0, 1, 0>>, <<0, -1, 0>>, <<1, 1, 0>>, <<0, 0, 2>>, <<0, 0, 0>>}}

\* two spheres in a row along x, a twin of the first with another material,
\* and a floor
ScenePool ==
    { Sphere(<<1, 0, 0>>, 1, MatOf(1)), Sphere(<<4, 0, 0>>, 1, MatOf(2)),
      Sphere(<<1, 0, 0>>, 1, MatOf(3)), Plane(<<0, -1, 0>>, <<0, 1, 0>>, MatOf(4)) }

InjSeqs(S, n) ==
    UNION {{s \in [1..k -> S] : \A i, j \in 1..k : i # j => s[i] # s[j]} : k \in 0..n}

HitScenes == {<<p>> : p \in PrimPool} \cup InjSeqs(ScenePool, MaxShapes)

LifeScenes ==
    InjSeqs({Sphere(<<1, 0, 0>>, 1, MatOf(1)),
             Plane(<<0, -1, 0>>, <<0, 1, 0>>, MatOf(4))}, MaxShapes)

LifeRays == {Ray(<<0, h, 0>>, <<0, -1, 0>>) : h \in 1..MaxHeight}

LifeIntervals == {Range(FromInt(n), PInf) : n \in 0..1}

(***************************************************************************)
(* State                                                                   *)
(***************************************************************************)
Scn == [shapes |-> shapes, accumulate |-> accumulate,
        frame_index |-> frame_index, accumulation |-> accumulation]

SetScene(sc) ==
    /\ shapes' = sc.shapes
    /\ accumulate' = sc.accumulate
    /\ frame_index' = sc.frame_index
    /\ accumulation' = sc.accumulation

NoQuery ==
    /\ target = 0
    /\ ray = Ray(<<0, 0, 0>>, <<0, 0, 0>>)
    /\ interval = Range(FromInt(0), PInf)
    /\ result = None

\* Plugin::build (line 93) inserts Scene::default()
Init ==
    /\ shapes = SceneDefault.shapes
    /\ accumulate = SceneDefault.accumulate
    /\ frame_index = SceneDefault.frame_index
    /\ accumulation = SceneDefault.accumulation
    /\ op = "default"
    /\ arg = DefaultShapes
    /\ NoQuery

\* a scene built by Scene::new, and a query about to be made of it
InitHit ==
    /\ \/ arg \in HitScenes /\ ray \in Rays
       \/ arg = DefaultShapes /\ ray \in DownRays
    /\ interval \in Intervals
    /\ shapes = SceneNew(arg).shapes
    /\ accumulate = SceneNew(arg).accumulate
    /\ frame_index = SceneNew(arg).frame_index
    /\ accumulation = SceneNew(arg).accumulation
    /\ op = "new"
    /\ target = 0
    /\ result = None

(***************************************************************************)
(* Operations                                                              *)
(***************************************************************************)
New(ss) ==
    /\ SetScene(SceneNew(ss))
    /\ op' = "new"
    /\ arg' = ss
    /\ UNCHANGED <<target, ray, interval, result>>

Default ==
    /\ SetScene(SceneDefault)
    /\ op' = "default"
    /\ arg' = DefaultShapes
    /\ UNCHANGED <<target, ray, interval, result>>

Resize ==
    /\ SetScene(SceneResize(Scn))
    /\ op' = "resize"
    /\ UNCHANGED <<arg, target, ray, interval, result>>

DoSphereHit(i, r, iv) ==
    /\ i \in 1..Len(shapes)
    /\ shapes[i].kind = "Sphere"
    /\ result' = SphereHit(shapes[i], r, iv)
    /\ op' = "sphere_hit"
    /\ target' = i
    /\ ray' = r
    /\ interval' = iv
    /\ UNCHANGED <<shapes, accumulate, frame_index, accumulation, arg>>

DoPlaneHit(i, r, iv) ==
    /\ i \in 1..Len(shapes)
    /\ shapes[i].kind = "Plane"
    /\ result' = PlaneHit(shapes[i], r, iv)
    /\ op' = "plane_hit"
    /\ target' = i
    /\ ray' = r
    /\ interval' = iv
    /\ UNCHANGED <<shapes, accumulate, frame_index, accumulation, arg>>

DoShapeHit(i, r, iv) ==
    /\ i \in 1..Len(shapes)
    /\ result' = ShapeHit(shapes[i], r, iv)
    /\ op' = "shape_hit"
    /\ target' = i
    /\ ray' = r
    /\ interval' = iv
    /\ UNCHANGED <<shapes, accumulate, frame_index, accumulation, arg>>

DoSceneHit(r, iv) ==
    /\ result' = SceneHit(shapes, r, iv)
    /\ op' = "scene_hit"
    /\ target' = 0
    /\ ray' = r
    /\ interval' = iv
    /\ UNCHANGED <<shapes, accumulate, frame_index, accumulation, arg>>

(***************************************************************************)
(* The callers the specification names, outside src/: the render pass,     *)
(* which restarts the running sum when frame_index is negative and then    *)
(* adds one sample per pixel, and the inspector, which sets the flag.      *)
(***************************************************************************)
Render ==
    LET restart == frame_index < 0 \/ Len(accumulation) # NumPixels \/ ~accumulate
        base == IF restart THEN [i \in 1..NumPixels |-> 0] ELSE accumulation
        fi == IF restart THEN 0 ELSE frame_index
    IN  /\ fi < MaxFrame
        /\ accumulation' = [i \in 1..NumPixels |-> base[i] + 1]
        /\ frame_index' = fi + 1
        /\ op' = "render"
        /\ UNCHANGED <<shapes, accumulate, arg, target, ray, interval, result>>

SetAccumulate(b) ==
    /\ accumulate' = b
    /\ op' = "set_accumulate"
    /\ UNCHANGED <<shapes, frame_index, accumulation, arg, target, ray, interval, result>>

(***************************************************************************)
(* Specifications                                                          *)
(***************************************************************************)
SceneQuery == \E r \in LifeRays, iv \in LifeIntervals : DoSceneHit(r, iv)

NewScene == \E ss \in LifeScenes : New(ss)

Inspect == \E b \in BOOLEAN : SetAccumulate(b)

Next == NewScene \/ Default \/ Resize \/ Render \/ Inspect \/ SceneQuery

\* the life of the Scene resource
Spec == Init /\ [][Next]_vars

QuerySphere == op = "new" /\ \E i \in 1..Len(shapes) : DoSphereHit(i, ray, interval)

QueryPlane == op = "new" /\ \E i \in 1..Len(shapes) : DoPlaneHit(i, ray, interval)

QueryShape == op = "new" /\ \E i \in 1..Len(shapes) : DoShapeHit(i, ray, interval)

QueryScene == op = "new" /\ DoSceneHit(ray, interval)

NextHit == QuerySphere \/ QueryPlane \/ QueryShape \/ QueryScene

\* one intersection query of a freshly built scene, over the bounded inputs
HitSpec == InitHit /\ [][NextHit]_vars

(***************************************************************************)
(* Vocabulary of the claims                                                *)
(***************************************************************************)
IsHitOp == op \in {"sphere_hit", "plane_hit", "shape_hit", "scene_hit"}

Queried == shapes[target]

\* the hit each member shape returns for the recorded query
MemberHit(i) == ShapeHit(shapes[i], ray, interval)

Hitting == {i \in 1..Len(shapes) : MemberHit(i) # None}

\* the ray origin relative to the centre of the queried sphere
OC == Sub(ray.origin, Queried.center)

DD == Dot(ray.direction, ray.direction)

Radius2 == Queried.radius * Queried.radius

OriginOutside == Dot(OC, OC) >= Radius2

OriginStrictlyInside == Dot(OC, OC) < Radius2

\* the squared distance from the centre to the ray's line,
\* |oc|^2 - (oc.D)^2 / D.D, is at most radius^2
LinePassesWithin ==
    /\ DD > 0
    /\ Dot(OC, OC) * DD - Dot(OC, ray.direction) * Dot(OC, ray.direction)
          <= Radius2 * DD

\* the smaller solution t of |oc + t*D|^2 = radius^2
NearRoot ==
    LET b == Dot(OC, ray.direction)
    IN  Fin(-b, -1, b * b - DD * (Dot(OC, OC) - Radius2), DD)

FarRoot ==
    LET b == Dot(OC, ray.direction)
    IN  Fin(-b, 1, b * b - DD * (Dot(OC, OC) - Radius2), DD)

\* squared distance of a finite point from an integer centre
Dist2(point, c) ==
    Add(Add(Square(AddInt(point[1], -c[1])), Square(AddInt(point[2], -c[2]))),
        Square(AddInt(point[3], -c[3])))

InInterval(t) == Le(interval.start, t) /\ Lt(t, interval.end)

OnSurface(h) ==
    /\ \A i \in 1..3 : IsFinite(h.point[i])
    /\ Eq(Dist2(h.point, Queried.center), FromInt(Radius2))

(***************************************************************************)
(* C1: Scene::hit returns the hit with the smallest t among the hits its   *)
(* member shapes return for the same ray and interval, and no hit when no  *)
(* member returns one.                                                     *)
(***************************************************************************)
C1_SceneHitIsNearest ==
    op = "scene_hit" =>
        IF Hitting = {} THEN result = None
        ELSE /\ result # None
             /\ \E i \in Hitting : result = MemberHit(i)
             /\ \A i \in Hitting : Le(result[1].t, MemberHit(i)[1].t)

\* a hit at t = 5 comes first in the scene, one at t = 2 second; t = 2 wins
C1_Witness ==
    /\ op = "scene_hit"
    /\ result # None
    /\ Eq(result[1].t, FromInt(2))
    /\ \E i, j \in Hitting :
          /\ i < j
          /\ Eq(MemberHit(i)[1].t, FromInt(5))
          /\ Eq(MemberHit(j)[1].t, FromInt(2))

(***************************************************************************)
(* C2 as stated: for a sphere that does not contain the ray origin, if the *)
(* ray's line passes within radius of the centre then Sphere::hit returns  *)
(* a hit with t in the interval and the hit point at distance radius.      *)
(* Taken for the spheres of positive radius.                               *)
(***************************************************************************)
C2_LineWithinAlwaysHits ==
    (op = "sphere_hit" /\ Queried.radius > 0 /\ OriginOutside /\ LinePassesWithin) =>
        /\ result # None
        /\ InInterval(result[1].t)
        /\ OnSurface(result[1])

(***************************************************************************)
(* C2 amended: under the same premises Sphere::hit returns a hit exactly   *)
(* when the near root lies in the interval; the hit then has that t and    *)
(* its point lies at distance radius from the centre.                      *)
(***************************************************************************)
C2_NearRootHit ==
    (op = "sphere_hit" /\ OriginOutside /\ LinePassesWithin) =>
        IF InInterval(NearRoot)
        THEN /\ result # None
             /\ Eq(result[1].t, NearRoot)
             /\ InInterval(result[1].t)
             /\ OnSurface(result[1])
        ELSE result = None

\* a non-unit direction and an irrational root
C2_Witness ==
    /\ op = "sphere_hit"
    /\ OriginOutside
    /\ LinePassesWithin
    /\ DD > 1
    /\ result # None
    /\ result[1].t.coef # 0
    /\ OnSurface(result[1])

(***************************************************************************)
(* C3: every HitRecord returned by Sphere::hit, Plane::hit, Shape::hit or  *)
(* Scene::hit has start <= t < end for the interval the caller supplied.   *)
(***************************************************************************)
C3_HitInsideInterval ==
    (IsHitOp /\ result # None) =>
        /\ Le(interval.start, result[1].t)
        /\ Lt(result[1].t, interval.end)

\* a scene hit right at the start of a bounded interval
C3_Witness ==
    /\ op = "scene_hit"
    /\ Len(shapes) = MaxShapes
    /\ result # None
    /\ Eq(result[1].t, interval.start)
    /\ IsFinite(interval.end)

(***************************************************************************)
(* C4: a ray whose origin is strictly inside a sphere gets no hit from     *)
(* Sphere::hit, for any nonzero direction and any interval that excludes   *)
(* the non-positive t.                                                     *)
(***************************************************************************)
C4_InsideOriginMisses ==
    (op = "sphere_hit" /\ OriginStrictlyInside /\ DD > 0
        /\ Lt(FromInt(0), interval.start)) => result = None

\* the far root is in the interval and still nothing is returned
C4_Witness ==
    /\ op = "sphere_hit"
    /\ OriginStrictlyInside
    /\ DD > 0
    /\ Lt(FromInt(0), interval.start)
    /\ InInterval(FarRoot)
    /\ result = None

(***************************************************************************)
(* C5: a ray parallel to a plane (N.D = 0, N and D nonzero) gets no hit    *)
(* from Plane::hit, whatever the ray origin and the interval.              *)
(***************************************************************************)
C5_ParallelNoHit ==
    (op = "plane_hit"
        /\ Queried.normal # <<0, 0, 0>>
        /\ ray.direction # <<0, 0, 0>>
        /\ Dot(Queried.normal, ray.direction) = 0) => result = None

(***************************************************************************)
(* C6 as stated: in the default scene a ray from above the origin straight *)
(* down hits the ground sphere (centre (0,-101,0), radius 100).  Taken     *)
(* with the interval [0, +inf) and a start outside the foreground sphere.  *)
(***************************************************************************)
AboveOriginDown ==
    /\ op = "scene_hit"
    /\ shapes = DefaultShapes
    /\ ray.origin[1] = 0
    /\ ray.origin[2] > 0
    /\ ray.origin[3] = 0

C6_DownRayHitsGround ==
    (AboveOriginDown /\ ray.origin[2] > 1 /\ interval = Range(FromInt(0), PInf)) =>
        /\ result # None
        /\ result[1].material = shapes[3].material

(***************************************************************************)
(* C6 amended: from (0,h,0), h >= 1, going down with speed k, the scene    *)
(* returns the foreground sphere at the origin at t = (h-1)/k whenever     *)
(* that t is in the interval; the ground sphere, at t = (h+1)/k, only when *)
(* the foreground root is outside the interval and the ground root inside; *)
(* nothing otherwise.                                                      *)
(***************************************************************************)
C6_DownRayHitsForegroundFirst ==
    AboveOriginDown =>
        LET h == ray.origin[2]
            k == -ray.direction[2]
            tf == Fin(h - 1, 0, 0, k)
            tg == Fin(h + 1, 0, 0, k)
        IN  IF InInterval(tf)
            THEN /\ result # None
                 /\ result[1].material = Mat(<<10, 0, 10>>, 8, 0, <<10, 10, 10>>, 0)
                 /\ Eq(result[1].t, tf)
            ELSE IF InInterval(tg)
            THEN /\ result # None
                 /\ result[1].material = Mat(<<2, 3, 60>>, 5, 0, <<10, 10, 10>>, 0)
                 /\ Eq(result[1].t, tg)
                 /\ result[1].point = <<FromInt(0), FromInt(-1), FromInt(0)>>
            ELSE result = None

\* the ground is the result: the ray starts on the foreground sphere and the
\* interval starts after 0
C6_Witness ==
    /\ AboveOriginDown
    /\ result # None
    /\ result[1].material = shapes[3].material
    /\ ~InInterval(FromInt(0))

(***************************************************************************)
(* C7: resize() leaves frame_index at -1 whatever it was, and it stays -1  *)
(* through further resize() calls and hit queries.                         *)
(***************************************************************************)
C7_ResizeSetsMinusOne ==
    [][ /\ op' = "resize" => frame_index' = -1
        /\ (frame_index = -1 /\ op' \in {"resize", "scene_hit"}) => frame_index' = -1
      ]_vars

\* a resize after render passes had advanced the index
C7_Witness ==
    /\ op = "resize"
    /\ frame_index = -1
    /\ accumulation # <<>>
    /\ accumulation[1] = MaxFrame

(***************************************************************************)
(* C8: when two shapes return hits with the same t, Scene::hit returns the *)
(* hit of the one that comes first in the scene's order.                   *)
(***************************************************************************)
Nearest == {i \in Hitting : \A j \in Hitting : Le(MemberHit(i)[1].t, MemberHit(j)[1].t)}

C8_TieGoesToFirst ==
    (op = "scene_hit" /\ Hitting # {}) =>
        \E i \in Nearest :
            /\ \A j \in Nearest : i <= j
            /\ result = MemberHit(i)

C8_Witness ==
    /\ op = "scene_hit"
    /\ \E i, j \in Nearest :
          /\ i < j
          /\ shapes[i].material # shapes[j].material
          /\ result = MemberHit(i)
          /\ result # MemberHit(j)

(***************************************************************************)
(* C9: Scene::new(shapes) holds exactly the given shapes in the given      *)
(* order, accumulate = false, frame_index = 0 and an empty accumulation    *)
(* buffer; the default scene is built the same way around its four         *)
(* spheres.                                                                *)
(***************************************************************************)
C9_NewSceneState ==
    (op \in {"new", "default"}) =>
        /\ shapes = arg
        /\ accumulate = FALSE
        /\ frame_index = 0
        /\ accumulation = <<>>
        /\ op = "default" =>
              /\ Len(shapes) = 4
              /\ \A i \in 1..4 : shapes[i].kind = "Sphere"
              /\ <<shapes[1].center, shapes[1].radius>> = <<<<0, 0, 0>>, 1>>
              /\ <<shapes[2].center, shapes[2].radius>> = <<<<2, 0, -1>>, 1>>
              /\ <<shapes[3].center, shapes[3].radius>> = <<<<0, -101, 0>>, 100>>
              /\ <<shapes[4].center, shapes[4].radius>> = <<<<100, 101, -20>>, 100>>

\* a scene of two shapes built anew
C9_Witness ==
    /\ op = "new"
    /\ Len(arg) = 2
    /\ arg[1].kind = "Plane"
    /\ shapes[2].kind = "Sphere"
    /\ frame_index = 0

(***************************************************************************)
(* C10: resize() changes frame_index only: the shapes, the accumulate flag *)
(* and the accumulation buffer are the same after it as before it.         *)
(***************************************************************************)
C10_ResizeFrame ==
    [][ op' = "resize" =>
          /\ shapes' = shapes
          /\ accumulate' = accumulate
          /\ accumulation' = accumulation
      ]_vars

\* a resize that found, and left, a filled buffer and the flag set
C10_Witness ==
    /\ op = "resize"
    /\ frame_index = -1
    /\ accumulate = TRUE
    /\ Len(accumulation) = NumPixels
    /\ accumulation[1] > 0

====
